---- MODULE Spec2Model ----
(***************************************************************************)
(* Password-based encryption workflow of PBA-CSV: the encryption module    *)
(* (deriveKeyFromPassword, encryptData, decryptData, encryptWithPassword,  *)
(* decryptWithPassword, encryptCSVData, decryptCSVData) and the            *)
(* decrypt endpoint of the backend server.                                 *)
(*                                                                         *)
(* Values.  A Buffer is a sequence of bytes (0..255).  A JavaScript string *)
(* is a sequence of UTF-16 code units.  The text of a JSON document is a   *)
(* record naming its kind and, for an object, its members in order.        *)
(*                                                                         *)
(* Library primitives.  crypto.pbkdf2 is modelled as an injective function *)
(* of the bytes it is given (the derived key is the term of its inputs).   *)
(* The AES-GCM keystream is a byte function of (key, iv, position) that is *)
(* XORed on the data.  The GCM tag is an ideal MAC: the tag of a           *)
(* (key, iv, ciphertext) triple is fixed when the triple is first          *)
(* encrypted, and no tag verifies for a triple that was never encrypted.   *)
(* crypto.randomBytes returns, among the values of the pool, one that it   *)
(* has not returned before (outputs of 16 bytes or more do not repeat).    *)
(***************************************************************************)
EXTENDS Integers, Sequences, FiniteSets, TLC

\* ------------------------------------------------------------------ bytes

RECURSIVE XorBits(_, _, _)
XorBits(a, b, n) ==
    IF n = 0 THEN 0
    ELSE (((a % 2) + (b % 2)) % 2) + 2 * XorBits(a \div 2, b \div 2, n - 1)

\* a ^ b on two bytes
Xor(a, b) == XorBits(a, b, 8)

RECURSIVE Pow2(_)
Pow2(n) == IF n = 0 THEN 1 ELSE 2 * Pow2(n - 1)

RECURSIVE SumSeq(_)
SumSeq(s) == IF s = <<>> THEN 0 ELSE Head(s) + SumSeq(Tail(s))

\* ------------------------------------------------- Buffer.from(str, 'utf-8')

IsHigh(u) == u >= 55296 /\ u <= 56319
IsLow(u) == u >= 56320 /\ u <= 57343

\* the UTF-8 bytes of one code point
Utf8OfCodePoint(cp) ==
    IF cp < 128 THEN <<cp>>
    ELSE IF cp < 2048 THEN <<192 + cp \div 64, 128 + (cp % 64)>>
    ELSE IF cp < 65536
         THEN <<224 + cp \div 4096, 128 + ((cp \div 64) % 64), 128 + (cp % 64)>>
    ELSE <<240 + cp \div 262144, 128 + ((cp \div 4096) % 64),
           128 + ((cp \div 64) % 64), 128 + (cp % 64)>>

\* A surrogate pair is one code point; a surrogate without its partner is
\* encoded as U+FFFD (EF BF BD).
RECURSIVE Utf8Encode(_)
Utf8Encode(s) ==
    IF s = <<>> THEN <<>>
    ELSE IF IsHigh(s[1]) /\ Len(s) >= 2 /\ IsLow(s[2])
         THEN Utf8OfCodePoint(65536 + (s[1] - 55296) * 1024 + (s[2] - 56320))
              \o Utf8Encode(SubSeq(s, 3, Len(s)))
    ELSE IF IsHigh(s[1]) \/ IsLow(s[1])
         THEN <<239, 191, 189>> \o Utf8Encode(Tail(s))
    ELSE Utf8OfCodePoint(s[1]) \o Utf8Encode(Tail(s))

\* ------------------------------------------------- buf.toString('utf-8')

IsCont(b) == b >= 128 /\ b <= 191

\* the code units of one code point
Utf16OfCodePoint(cp) ==
    IF cp < 65536 THEN <<cp>>
    ELSE <<55296 + (cp - 65536) \div 1024, 56320 + ((cp - 65536) % 1024)>>

\* the second byte a lead byte of a 3-byte or of a 4-byte sequence admits
\* (no overlong form, no surrogate, nothing above U+10FFFF)
Second3(b1, b2) == IsCont(b2) /\ (b1 = 224 => b2 >= 160) /\ (b1 = 237 => b2 <= 159)
Second4(b1, b2) == IsCont(b2) /\ (b1 = 240 => b2 >= 144) /\ (b1 = 244 => b2 <= 143)

\* An ill-formed sequence decodes to U+FFFD: one for the longest prefix of a
\* sequence that is present, one for any other byte.
RECURSIVE Utf8Decode(_)
Utf8Decode(b) ==
    IF b = <<>> THEN <<>>
    ELSE LET n == Len(b)
             b1 == b[1]
             rest(k) == Utf8Decode(SubSeq(b, k + 1, n))
         IN IF b1 < 128 THEN <<b1>> \o rest(1)
            ELSE IF b1 >= 194 /\ b1 <= 223
                 THEN IF n >= 2 /\ IsCont(b[2])
                      THEN <<(b1 - 192) * 64 + (b[2] - 128)>> \o rest(2)
                      ELSE <<65533>> \o rest(1)
            ELSE IF b1 >= 224 /\ b1 <= 239
                 THEN IF n >= 3 /\ Second3(b1, b[2]) /\ IsCont(b[3])
                      THEN <<(b1 - 224) * 4096 + (b[2] - 128) * 64 + (b[3] - 128)>>
                           \o rest(3)
                      ELSE IF n >= 2 /\ Second3(b1, b[2]) THEN <<65533>> \o rest(2)
                      ELSE <<65533>> \o rest(1)
            ELSE IF b1 >= 240 /\ b1 <= 244
                 THEN IF n >= 4 /\ Second4(b1, b[2]) /\ IsCont(b[3]) /\ IsCont(b[4])
                      THEN Utf16OfCodePoint((b1 - 240) * 262144 + (b[2] - 128) * 4096
                                            + (b[3] - 128) * 64 + (b[4] - 128))
                           \o rest(4)
                      ELSE IF n >= 3 /\ Second4(b1, b[2]) /\ IsCont(b[3])
                           THEN <<65533>> \o rest(3)
                      ELSE IF n >= 2 /\ Second4(b1, b[2]) THEN <<65533>> \o rest(2)
                      ELSE <<65533>> \o rest(1)
            ELSE <<65533>> \o rest(1)

\* ------------------------------------------------- buf.toString('base64')

\* the character of a 6-bit value: A-Z a-z 0-9 + /
B64Char(v) ==
    IF v < 26 THEN 65 + v
    ELSE IF v < 52 THEN 97 + (v - 26)
    ELSE IF v < 62 THEN 48 + (v - 52)
    ELSE IF v = 62 THEN 43 ELSE 47

PadChar == 61

RECURSIVE Base64Encode(_)
Base64Encode(b) ==
    IF b = <<>> THEN <<>>
    ELSE IF Len(b) = 1
         THEN <<B64Char(b[1] \div 4), B64Char((b[1] % 4) * 16), PadChar, PadChar>>
    ELSE IF Len(b) = 2
         THEN <<B64Char(b[1] \div 4), B64Char((b[1] % 4) * 16 + b[2] \div 16),
                B64Char((b[2] % 16) * 4), PadChar>>
    ELSE <<B64Char(b[1] \div 4), B64Char((b[1] % 4) * 16 + b[2] \div 16),
           B64Char((b[2] % 16) * 4 + b[3] \div 64), B64Char(b[3] % 64)>>
         \o Base64Encode(SubSeq(b, 4, Len(b)))

\* ------------------------------------------------- Buffer.from(str, 'base64')

\* the 6-bit value of a character, 64 for a character outside the alphabet
\* ('-' and '_' are accepted for '+' and '/')
Unbase64(c) ==
    IF c >= 65 /\ c <= 90 THEN c - 65
    ELSE IF c >= 97 /\ c <= 122 THEN c - 97 + 26
    ELSE IF c >= 48 /\ c <= 57 THEN c - 48 + 52
    ELSE IF c = 43 \/ c = 45 THEN 62
    ELSE IF c = 47 \/ c = 95 THEN 63
    ELSE 64

\* the 6-bit values read from a string: decoding stops at the first '=',
\* a character outside the alphabet is skipped
RECURSIVE Sextets(_)
Sextets(s) ==
    IF s = <<>> \/ s[1] = PadChar THEN <<>>
    ELSE IF Unbase64(s[1]) = 64 THEN Sextets(Tail(s))
    ELSE <<Unbase64(s[1])>> \o Sextets(Tail(s))

RECURSIVE BytesOfSextets(_)
BytesOfSextets(v) ==
    IF Len(v) < 2 THEN <<>>
    ELSE IF Len(v) = 2 THEN <<v[1] * 4 + v[2] \div 16>>
    ELSE IF Len(v) = 3
         THEN <<v[1] * 4 + v[2] \div 16, (v[2] % 16) * 16 + v[3] \div 4>>
    ELSE <<v[1] * 4 + v[2] \div 16, (v[2] % 16) * 16 + v[3] \div 4,
           (v[3] % 4) * 64 + v[4]>>
         \o BytesOfSextets(SubSeq(v, 5, Len(v)))

Base64Decode(s) == BytesOfSextets(Sextets(s))

\* ------------------------------------------------------- JavaScript values

Undefined == [t |-> "undefined", s |-> <<>>, n |-> 0]
Str(chars) == [t |-> "string", s |-> chars, n |-> 0]
Num(k) == [t |-> "number", s |-> <<>>, n |-> k]
Buf(bytes) == [t |-> "buffer", s |-> bytes, n |-> 0]

\* !v
Falsy(v) ==
    \/ v.t = "undefined"
    \/ v.t = "string" /\ v.s = <<>>
    \/ v.t = "number" /\ v.n = 0

\* ------------------------------------------- JSON.stringify and JSON.parse

\* The text JSON.stringify writes for an object literal: its members in the
\* order of the literal.
JSONstringify(members) == [kind |-> "object", members |-> members]

\* a text that is no JSON document, and the document null
NotJsonText == [kind |-> "invalid", members |-> <<>>]
NullText == [kind |-> "null", members |-> <<>>]

\* the value of the last member of the name, undefined when there is none
RECURSIVE Member(_, _)
Member(members, name) ==
    IF members = <<>> THEN Undefined
    ELSE IF members[Len(members)].name = name THEN members[Len(members)].value
    ELSE Member(SubSeq(members, 1, Len(members) - 1), name)

\* JSON.parse(text).name for the four names decryptCSVData reads; err is the
\* exception: a SyntaxError for a text that is no JSON, a TypeError for a
\* property of null.  A property of a string is undefined.
JSONparse(text) ==
    IF text.kind = "invalid"
    THEN [err |-> "Unexpected token in JSON", ciphertext |-> Undefined,
          salt |-> Undefined, iv |-> Undefined, tag |-> Undefined]
    ELSE IF text.kind = "null"
    THEN [err |-> "Cannot read properties of null", ciphertext |-> Undefined,
          salt |-> Undefined, iv |-> Undefined, tag |-> Undefined]
    ELSE IF text.kind = "string"
    THEN [err |-> "", ciphertext |-> Undefined,
          salt |-> Undefined, iv |-> Undefined, tag |-> Undefined]
    ELSE [err |-> "", ciphertext |-> Member(text.members, "ciphertext"),
          salt |-> Member(text.members, "salt"),
          iv |-> Member(text.members, "iv"),
          tag |-> Member(text.members, "tag")]

\* --------------------------------------------------------- ENCRYPTION_CONFIG

algorithm == "aes-256-gcm"
\* its characters, as the envelope carries them
AlgorithmChars == <<97, 101, 115, 45, 50, 53, 54, 45, 103, 99, 109>>
keyLength == 32
ivLength == 16
tagLength == 16
saltLength == 32
pbkdf2Digest == "sha256"

\* the iteration counts the configuration takes: the default and the one the
\* deployment guide recommends
DefaultIterations == 100000
RaisedIterations == 300000
IterationChoices == {DefaultIterations, RaisedIterations}

\* ------------------------------------------------------------------ bounds

\* envelopes sealed in one behaviour
MaxSeals == 2
\* values crypto.randomBytes returns in one behaviour
PoolSize == 4

\* ------------------------------------------------------- library primitives

\* crypto.randomBytes(n): the value the generator returns at its seed-th call;
\* the values of two calls differ
randomBytes(n, seed) == [i \in 1..n |-> (seed * 37 + i * 7) % 256]

\* crypto.pbkdf2(password, salt, iterations, keylen, digest): the key as the
\* term of what it was derived from; the password string is taken as UTF-8.
pbkdf2(password, salt, iterations, keylen, digest) ==
    [pw |-> Utf8Encode(password), salt |-> salt, iterations |-> iterations,
     len |-> keylen, digest |-> digest, raw |-> <<>>]

\* a key given as bytes by the caller
RawKey(bytes) ==
    [pw |-> <<>>, salt |-> <<>>, iterations |-> 0, len |-> Len(bytes),
     digest |-> "", raw |-> bytes]

\* AES-GCM: the keystream byte at position i under (key, iv)
KeyMix(key) == SumSeq(key.pw) + SumSeq(key.salt) + SumSeq(key.raw) + key.iterations
Keystream(mix, i) == (mix + 31 * i) % 256

\* cipher.update / decipher.update: the data XOR the keystream
GcmCrypt(key, iv, data) ==
    LET mix == KeyMix(key) + SumSeq(iv)
    IN [i \in 1..Len(data) |-> Xor(data[i], Keystream(mix, i))]

\* the tag of the k-th triple encrypted
TagBytes(k) == [i \in 1..tagLength |-> (k * 29 + i * 11) % 256]

\* cipher.getAuthTag(): the tag of (key, iv, ct), the one it got when the
\* triple was first encrypted (log: the encryptions so far)
RECURSIVE TagIn(_, _, _, _)
TagIn(log, key, iv, ct) ==
    IF log = <<>> THEN <<>>
    ELSE IF log[1].key = key /\ log[1].iv = iv /\ log[1].ct = ct THEN log[1].tag
    ELSE TagIn(Tail(log), key, iv, ct)

GcmTag(log, key, iv, ct) ==
    IF TagIn(log, key, iv, ct) # <<>> THEN TagIn(log, key, iv, ct)
    ELSE TagBytes(Len(log) + 1)

\* decipher.final(): the tag given is the tag of (key, iv, ct)
GcmVerify(log, key, iv, ct, tag) ==
    tag # <<>> /\ TagIn(log, key, iv, ct) = tag

\* ------------------------------------------------------------------- state

VARIABLES
    pbkdf2Iterations,   \* ENCRYPTION_CONFIG.pbkdf2Iterations
    rngCount,           \* the number of values crypto.randomBytes has returned
    encLog,             \* the encryptions performed: key, iv, ct, tag, ivGenerated
    store,              \* the envelopes sealed, each with what it was sealed from
    call,               \* the call that has just completed, NoCall between calls
    derived,            \* the direct calls of deriveKeyFromPassword, with results
    pending,            \* the calls waiting for crypto.pbkdf2 to call back
    files,              \* the files the front ends have downloaded
    page                \* the page of a front end: what it shows and holds, the
                        \* requests it waits for and the timeouts it has set

vars == <<pbkdf2Iterations, rngCount, encLog, store, call, derived, pending, files, page>>

NoCall == [op |-> "none"]

\* a message of the React component: null, or its type and text
NoMessage == [type |-> "null", text |-> <<>>]

\* no page is open
NoPage ==
    [frontEnd |-> "none", loading |-> FALSE,
     errorVisible |-> FALSE, errorText |-> <<>>,
     successVisible |-> FALSE, successText |-> <<>>,
     message |-> NoMessage,
     billingData |-> "null", exportPassword |-> <<>>, selectedFields |-> <<>>,
     listeners |-> FALSE, downloads |-> FALSE, decrypted |-> FALSE,
     requests |-> <<>>, timers |-> <<>>]

\* --------------------------------------------------- deriveKeyFromPassword

\* one salt for every key, none generated
deriveKeyFromPassword_FixedSalt(password, salt, seed) ==
    LET s == IF Falsy(salt) THEN [i \in 1..saltLength |-> 0] ELSE salt.s
    IN [ok |-> TRUE,
        key |-> pbkdf2(password.s, s, pbkdf2Iterations, keyLength, pbkdf2Digest),
        salt |-> s, error |-> <<>>]

\* a salt is generated whether or not one was supplied
deriveKeyFromPassword_SaltRegenerated(password, salt, seed) ==
    LET s == randomBytes(saltLength, seed)
    IN [ok |-> password.t \in {"string", "buffer"},
        key |-> pbkdf2(password.s, s, pbkdf2Iterations, keyLength, pbkdf2Digest),
        salt |-> s, error |-> <<>>]

\* the key derived from the salt alone
deriveKeyFromPassword_PasswordUnused(password, salt, seed) ==
    LET s == IF Falsy(salt) THEN randomBytes(saltLength, seed) ELSE salt.s
    IN [ok |-> TRUE, key |-> pbkdf2(<<>>, s, pbkdf2Iterations, keyLength, pbkdf2Digest),
        salt |-> s, error |-> <<>>]

\* salt: Undefined when omitted (a salt of seed is generated), else a Buffer.
\* crypto.pbkdf2 throws for a password that is neither a string nor a Buffer.
deriveKeyFromPassword(password, salt, seed) ==
    LET s == IF Falsy(salt) THEN randomBytes(saltLength, seed) ELSE salt.s
    IN IF password.t \notin {"string", "buffer"}
       THEN [ok |-> FALSE, key |-> RawKey(<<>>), salt |-> s,
             error |-> <<"The \"password\" argument must be of type string">>]
       ELSE [ok |-> TRUE,
             key |-> pbkdf2(password.s, s, pbkdf2Iterations, keyLength, pbkdf2Digest),
             salt |-> s, error |-> <<>>]

\* ------------------------------------------------------------- encryptData

\* an omitted iv is 16 zero bytes, none generated
encryptData_FixedIv(data, key, iv, seed) ==
    LET nonce == IF Falsy(iv) THEN [i \in 1..ivLength |-> 0] ELSE iv.s
        ciphertext == GcmCrypt(key, nonce,
                               IF data.t = "string" THEN Utf8Encode(data.s) ELSE data.s)
    IN [ok |-> key.len = keyLength /\ nonce # <<>>, ciphertext |-> ciphertext,
        iv |-> nonce, tag |-> GcmTag(encLog, key, nonce, ciphertext),
        algorithm |-> algorithm, key |-> key, ivGenerated |-> Falsy(iv),
        error |-> <<>>]

\* the tag is appended to the ciphertext
encryptData_TagAppended(data, key, iv, seed) ==
    LET nonce == IF Falsy(iv) THEN randomBytes(ivLength, seed) ELSE iv.s
        ciphertext == GcmCrypt(key, nonce,
                               IF data.t = "string" THEN Utf8Encode(data.s) ELSE data.s)
    IN [ok |-> key.len = keyLength /\ nonce # <<>>,
        ciphertext |-> ciphertext \o GcmTag(encLog, key, nonce, ciphertext),
        iv |-> nonce, tag |-> GcmTag(encLog, key, nonce, ciphertext),
        algorithm |-> algorithm, key |-> key, ivGenerated |-> Falsy(iv),
        error |-> <<>>]

\* iv: Undefined when omitted (an iv of seed is generated), else a Buffer.
\* createCipheriv rejects an empty iv.
encryptData(data, key, iv, seed) ==
    LET generated == Falsy(iv)
        nonce == IF generated THEN randomBytes(ivLength, seed) ELSE iv.s
        dataBuffer == IF data.t = "string" THEN Utf8Encode(data.s) ELSE data.s
        ciphertext == GcmCrypt(key, nonce, dataBuffer)
        failed(msg) == [ok |-> FALSE, ciphertext |-> <<>>, iv |-> nonce,
                        tag |-> <<>>, algorithm |-> algorithm, key |-> key,
                        ivGenerated |-> generated, error |-> <<msg>>]
    IN IF key.len # keyLength THEN failed("Key must be 32 bytes")
       ELSE IF nonce = <<>> THEN failed("Invalid initialization vector")
       ELSE [ok |-> TRUE, ciphertext |-> ciphertext, iv |-> nonce,
             tag |-> GcmTag(encLog, key, nonce, ciphertext),
             algorithm |-> algorithm, key |-> key, ivGenerated |-> generated,
             error |-> <<>>]

\* the entry an encryption adds to the log
LogEntry(r) ==
    [key |-> r.key, iv |-> r.iv, ct |-> r.ciphertext, tag |-> r.tag,
     ivGenerated |-> r.ivGenerated]

\* ------------------------------------------------------------- decryptData

\* decipher.final() is not called: what update() returned is the result
decryptData_NoFinal(ciphertext, key, iv, tag) ==
    [ok |-> TRUE, value |-> Str(Utf8Decode(GcmCrypt(key, iv, ciphertext))),
     error |-> <<>>, ops |-> <<"update">>,
     tagOk |-> GcmVerify(encLog, key, iv, ciphertext, tag)]

\* the error of decipher.final() is swallowed: the bytes update() returned
\* are the result whether or not the tag was found right
decryptData_FinalErrorSwallowed(ciphertext, key, iv, tag) ==
    [ok |-> TRUE, value |-> Str(Utf8Decode(GcmCrypt(key, iv, ciphertext))),
     error |-> <<>>, ops |-> <<"update", "final">>,
     tagOk |-> GcmVerify(encLog, key, iv, ciphertext, tag)]

\* ops: the cryptographic operations run, in order.  tagOk: decipher.final()
\* found the tag to be the tag of (key, iv, ciphertext); when it did not,
\* final() throws and the bytes update() returned are dropped.
decryptData(ciphertext, key, iv, tag) ==
    LET failed(msg, ops, t) == [ok |-> FALSE, value |-> Undefined,
                                error |-> <<msg>>, ops |-> ops, tagOk |-> t]
        plaintext == GcmCrypt(key, iv, ciphertext)
        tagOk == GcmVerify(encLog, key, iv, ciphertext, tag)
    IN IF key.len # keyLength THEN failed("Key must be 32 bytes", <<>>, FALSE)
       ELSE IF Len(iv) # ivLength THEN failed("IV must be 16 bytes", <<>>, FALSE)
       ELSE IF Len(tag) # tagLength THEN failed("Tag must be 16 bytes", <<>>, FALSE)
       ELSE IF ~tagOk
       THEN failed("Unsupported state or unable to authenticate data",
                   <<"update", "final">>, FALSE)
       ELSE [ok |-> TRUE, value |-> Str(Utf8Decode(plaintext)), error |-> <<>>,
             ops |-> <<"update", "final">>, tagOk |-> TRUE]

\* ----------------------------------------------------- encryptWithPassword

\* encryptWithPassword from where it resumes with d, the value its await of
\* deriveKeyFromPassword settled with
encryptWithPasswordAfter(data, d, ivSeed) ==
    LET e == encryptData(data, d.key, Undefined, ivSeed)
    IN IF ~d.ok
       THEN [ok |-> FALSE, encrypted |-> <<>>, iv |-> <<>>, tag |-> <<>>,
             salt |-> d.salt, algorithm |-> algorithm, enc |-> e,
             encrypts |-> FALSE, error |-> <<"Encryption failed: ">> \o d.error]
       ELSE IF ~e.ok
       THEN [ok |-> FALSE, encrypted |-> <<>>, iv |-> <<>>, tag |-> <<>>,
             salt |-> d.salt, algorithm |-> algorithm, enc |-> e,
             encrypts |-> FALSE, error |-> <<"Encryption failed: ">> \o e.error]
       ELSE [ok |-> TRUE, encrypted |-> e.ciphertext, iv |-> e.iv, tag |-> e.tag,
             salt |-> d.salt, algorithm |-> algorithm, enc |-> e,
             encrypts |-> TRUE, error |-> <<>>]

encryptWithPassword(data, password, saltSeed, ivSeed) ==
    encryptWithPasswordAfter(data, deriveKeyFromPassword(password, Undefined, saltSeed),
                             ivSeed)

\* ----------------------------------------------------- decryptWithPassword

\* decryptWithPassword from where it resumes with d, the value its await of
\* deriveKeyFromPassword settled with
decryptWithPasswordAfter(ciphertext, d, iv, tag) ==
    LET p == decryptData(ciphertext, d.key, iv, tag)
    IN IF ~d.ok
       THEN [ok |-> FALSE, value |-> Undefined,
             error |-> <<"Decryption failed: ">> \o d.error,
             ops |-> <<>>, tagOk |-> FALSE]
       ELSE IF ~p.ok
       THEN [ok |-> FALSE, value |-> Undefined,
             error |-> <<"Decryption failed: ">> \o p.error,
             ops |-> <<"pbkdf2">> \o p.ops, tagOk |-> FALSE]
       ELSE [ok |-> TRUE, value |-> p.value, error |-> <<>>,
             ops |-> <<"pbkdf2">> \o p.ops, tagOk |-> p.tagOk]

decryptWithPassword(ciphertext, password, salt, iv, tag) ==
    decryptWithPasswordAfter(ciphertext, deriveKeyFromPassword(password, Buf(salt), 0),
                             iv, tag)

\* ---------------------------------------------------------- encryptCSVData

Prop(name, value) == [name |-> name, value |-> value]

\* the tag under "iv" and the iv under "tag"
EnvelopeMembers_IvTagSwapped(r) ==
    <<Prop("salt", Str(Base64Encode(r.salt))),
      Prop("iv", Str(Base64Encode(r.tag))),
      Prop("tag", Str(Base64Encode(r.iv))),
      Prop("ciphertext", Str(Base64Encode(r.encrypted))),
      Prop("algorithm", Str(AlgorithmChars)),
      Prop("iterations", Num(pbkdf2Iterations))>>

\* iterations is written as the constant 100000, not as the configured count
EnvelopeMembers_IterationsDefault(r) ==
    <<Prop("salt", Str(Base64Encode(r.salt))),
      Prop("iv", Str(Base64Encode(r.iv))),
      Prop("tag", Str(Base64Encode(r.tag))),
      Prop("ciphertext", Str(Base64Encode(r.encrypted))),
      Prop("algorithm", Str(AlgorithmChars)),
      Prop("iterations", Num(DefaultIterations))>>

\* the object literal encryptCSVData serializes
EnvelopeMembers(r) ==
    <<Prop("salt", Str(Base64Encode(r.salt))),
      Prop("iv", Str(Base64Encode(r.iv))),
      Prop("tag", Str(Base64Encode(r.tag))),
      Prop("ciphertext", Str(Base64Encode(r.encrypted))),
      Prop("algorithm", Str(AlgorithmChars)),
      Prop("iterations", Num(pbkdf2Iterations))>>

\* encryptCSVData from where it resumes with r, the value its await of
\* encryptWithPassword settled with
encryptCSVDataAfter(r) ==
    IF ~r.ok
    THEN [ok |-> FALSE, payload |-> NotJsonText,
          metadata |-> [algorithm |-> algorithm, iterations |-> pbkdf2Iterations],
          enc |-> r.enc, encrypts |-> FALSE,
          error |-> <<"CSV encryption failed: ">> \o r.error]
    ELSE [ok |-> TRUE, payload |-> JSONstringify(EnvelopeMembers(r)),
          metadata |-> [algorithm |-> algorithm, iterations |-> pbkdf2Iterations],
          enc |-> r.enc, encrypts |-> TRUE, error |-> <<>>]

encryptCSVData(csvData, password, saltSeed, ivSeed) ==
    encryptCSVDataAfter(encryptWithPassword(csvData, password, saltSeed, ivSeed))

\* ---------------------------------------------------------- decryptCSVData

\* Buffer.from(v, 'base64') throws a TypeError for a value that is no string
BufferFromThrows(v) == v.t # "string"

\* decryptCSVData with data, what it parsed, and r, the value its await of
\* decryptWithPassword settled with (awaited only when the four Buffers were
\* made)
decryptCSVDataAfter(data, r) ==
    LET failed(msg, ops) == [ok |-> FALSE, value |-> Undefined,
                             error |-> <<"CSV decryption failed: ">> \o msg,
                             ops |-> ops, tagOk |-> FALSE]
    IN IF data.err # "" THEN failed(<<data.err>>, <<>>)
       ELSE IF \/ BufferFromThrows(data.ciphertext) \/ BufferFromThrows(data.salt)
               \/ BufferFromThrows(data.iv) \/ BufferFromThrows(data.tag)
       THEN failed(<<"The first argument must be of type string">>, <<>>)
       ELSE IF ~r.ok THEN failed(r.error, r.ops)
       ELSE [ok |-> TRUE, value |-> r.value, error |-> <<>>, ops |-> r.ops,
             tagOk |-> r.tagOk]

\* the salt decryptCSVData passes on: Buffer.from(data.salt, 'base64')
SaltOf(data) == Buf(Base64Decode(data.salt.s))

decryptCSVDataParsed(data, password) ==
    decryptCSVDataAfter(data,
                        decryptWithPassword(Base64Decode(data.ciphertext.s), password,
                                            Base64Decode(data.salt.s),
                                            Base64Decode(data.iv.s),
                                            Base64Decode(data.tag.s)))

decryptCSVData(payload, password) == decryptCSVDataParsed(JSONparse(payload), password)

\* ------------------------------------------------------------------ inputs

\* CSV texts: "", "c," followed by a surrogate pair, a high surrogate without
\* its partner
Plaintexts == {<<>>, <<99, 44, 55357, 56832>>, <<55296>>}

\* passwords to seal with: "s", a high surrogate without its partner
SealPasswords == {<<115>>, <<55296>>}

\* passwords to open with: those, U+FFFD, and no password at all
OpenPasswords == {Str(w) : w \in SealPasswords \cup {<<65533>>}} \cup {Undefined}

\* the fields of an envelope that hold bytes
ByteFields == {"salt", "iv", "tag", "ciphertext"}

\* What may happen to an envelope between seal and open.
\*   none      nothing
\*   flip      one bit of the bytes of a field is flipped
\*   truncate  the last byte of a field is cut
\*   garbage   the field holds "!!!!", no base64 character at all
\*   noise     a '!' is put in front of the field's base64 text
\*   number    the field holds a number
\*   drop      the field is missing
\*   notjson   the text is no JSON document
\*   null      the text is the JSON document null
Mut(kind, field, byte, bit) == [kind |-> kind, field |-> field, byte |-> byte, bit |-> bit]

NoMutation == Mut("none", "", 0, 0)

FieldMutationKinds == {"truncate", "garbage", "noise", "number", "drop"}

FieldBytes(text, field) == Base64Decode(Member(text.members, field).s)

\* the bytes of a field of n bytes that are flipped: the first and the last
FlipBytes(n) == IF n = 0 THEN {} ELSE {1, n}
FlipBits == 0..7

Mutations(text) ==
    {Mut("notjson", "", 0, 0), Mut("null", "", 0, 0)}
    \cup {Mut(k, f, 0, 0) : k \in FieldMutationKinds, f \in ByteFields}
    \cup UNION {{Mut("flip", f, i, b) : i \in FlipBytes(Len(FieldBytes(text, f))),
                                        b \in FlipBits}
                : f \in ByteFields}

FlipBit(bytes, i, b) == [bytes EXCEPT ![i] = Xor(@, Pow2(b))]

RECURSIVE SetMember(_, _, _)
SetMember(members, name, value) ==
    IF members = <<>> THEN <<>>
    ELSE <<IF members[1].name = name THEN Prop(name, value) ELSE members[1]>>
         \o SetMember(Tail(members), name, value)

DropMember(members, name) == SelectSeq(members, LAMBDA m : m.name # name)

Mutate(text, m) ==
    LET old == Member(text.members, m.field)
        bytes == Base64Decode(old.s)
        set(v) == [text EXCEPT !.members = SetMember(@, m.field, v)]
    IN CASE m.kind = "none" -> text
         [] m.kind = "notjson" -> NotJsonText
         [] m.kind = "null" -> NullText
         [] m.kind = "drop" -> [text EXCEPT !.members = DropMember(@, m.field)]
         [] m.kind = "number" -> set(Num(7))
         [] m.kind = "garbage" -> set(Str(<<33, 33, 33, 33>>))
         [] m.kind = "noise" -> set(Str(<<33>> \o old.s))
         [] m.kind = "truncate" ->
                set(Str(Base64Encode(SubSeq(bytes, 1, Len(bytes) - 1))))
         [] m.kind = "flip" -> set(Str(Base64Encode(FlipBit(bytes, m.byte, m.bit))))

\* ----------------------------------------------------------------- actions

Init ==
    /\ pbkdf2Iterations = DefaultIterations
    /\ rngCount = 0
    /\ encLog = <<>>
    /\ store = <<>>
    /\ call = NoCall
    /\ derived = <<>>
    /\ pending = <<>>
    /\ files = <<>>
    /\ page = NoPage

\* seal: encryptCSVData(csvData, password); the envelope is kept with what it
\* was sealed from.  The salt and the iv are the next two values of the
\* generator.
Seal(csvData, password) ==
    /\ call.op = "none"
    /\ Len(store) < MaxSeals
    /\ rngCount + 2 <= PoolSize
    /\ LET r == encryptCSVData(Str(csvData), Str(password), rngCount + 1, rngCount + 2)
       IN /\ encLog' = IF r.encrypts THEN Append(encLog, LogEntry(r.enc)) ELSE encLog
          /\ store' = IF r.ok
                      THEN Append(store, [payload |-> r.payload, csvData |-> csvData,
                                          password |-> password,
                                          iterations |-> pbkdf2Iterations])
                      ELSE store
          /\ call' = [op |-> "encryptCSVData", ok |-> r.ok]
    /\ rngCount' = rngCount + 2
    /\ UNCHANGED <<pbkdf2Iterations, derived, pending, files, page>>

\* the envelope is used up by the call: what is kept of it is the document null
Open_Consuming(src, m, password) ==
    /\ call.op = "none"
    /\ src \in 1..Len(store)
    /\ call' = [op |-> "decryptCSVData", src |-> src, mutation |-> m,
                password |-> password, iterations |-> pbkdf2Iterations,
                result |-> decryptCSVData(Mutate(store[src].payload, m), password)]
    /\ store' = [store EXCEPT ![src].payload = NullText]
    /\ UNCHANGED <<pbkdf2Iterations, rngCount, encLog, derived, pending, files, page>>

\* open: decryptCSVData(payload, password), the payload being the envelope
\* src after m happened to it
Open(src, m, password) ==
    /\ call.op = "none"
    /\ src \in 1..Len(store)
    /\ call' = [op |-> "decryptCSVData", src |-> src, mutation |-> m,
                password |-> password, iterations |-> pbkdf2Iterations,
                result |-> decryptCSVData(Mutate(store[src].payload, m), password)]
    /\ UNCHANGED <<pbkdf2Iterations, rngCount, encLog, store, derived, pending, files, page>>

\* an envelope as sealed is opened with any password
OpenSealed ==
    \E src \in 1..Len(store), password \in OpenPasswords :
        Open(src, NoMutation, password)

\* an envelope something happened to is opened with the password it was
\* sealed with
OpenMutated ==
    /\ call.op = "none"
    /\ \E src \in 1..Len(store) :
           \E m \in Mutations(store[src].payload) :
               Open(src, m, Str(store[src].password))

\* the configured iteration count is changed
Reconfigure(n) ==
    /\ call.op = "none"
    /\ n # pbkdf2Iterations
    /\ pbkdf2Iterations' = n
    /\ UNCHANGED <<rngCount, encLog, store, call, derived, pending, files, page>>

\* the caller takes the result
Return ==
    /\ call.op # "none"
    /\ call' = NoCall
    /\ UNCHANGED <<pbkdf2Iterations, rngCount, encLog, store, derived, pending, files, page>>

SealAny == \E csvData \in Plaintexts, password \in SealPasswords : Seal(csvData, password)

ReconfigureAny == \E n \in IterationChoices : Reconfigure(n)

Next ==
    \/ SealAny
    \/ OpenSealed
    \/ OpenMutated
    \/ ReconfigureAny
    \/ Return

Spec == Init /\ [][Next]_vars

\* ------------------------------------------- POST /api/billing/decrypt-csv

DecryptFailedMessage == "Decryption failed - invalid password or corrupted data"

Response(status, success, error, data) ==
    [status |-> status, success |-> success, error |-> error, data |-> data]

\* the exception's own message as the error of the response
DecryptFailure_MessageOfError(r) == Response(400, FALSE, r.error, Undefined)

\* the catch block of the handler
DecryptFailure(r) == Response(400, FALSE, <<DecryptFailedMessage>>, Undefined)

\* body: payload (present or not, and its text) and password.  r: the result
\* of decryptCSVData on them, which the handler calls once the body has both.
DecryptCsvAnswer(body, r) ==
    IF ~body.payload.present \/ Falsy(body.password)
    THEN [called |-> FALSE, core |-> r,
          response |-> Response(400, FALSE,
                                <<"Payload and password are required">>, Undefined)]
    ELSE IF ~r.ok
    THEN [called |-> TRUE, core |-> r, response |-> DecryptFailure(r)]
    ELSE [called |-> TRUE, core |-> r,
          response |-> Response(200, TRUE, <<>>, r.value)]

DecryptCsvHandler(body) ==
    DecryptCsvAnswer(body, decryptCSVData(body.payload.text, body.password))

\* passwords of a request body: those of open, and the empty string
BodyPasswords == OpenPasswords \cup {Str(<<>>)}

\* the completed request; result is the result of decryptCSVData, or of no
\* call at all
Answer(src, m, present, password, h) ==
    [op |-> "POST /api/billing/decrypt-csv", src |-> src, mutation |-> m,
     password |-> password, present |-> present, called |-> h.called,
     result |-> IF h.called THEN h.core
                ELSE [ok |-> FALSE, value |-> Undefined, error |-> <<>>,
                      ops |-> <<>>, tagOk |-> FALSE],
     response |-> h.response]

DecryptCsv(src, m, present, password) ==
    /\ call.op = "none"
    /\ src \in 1..Len(store)
    /\ call' = Answer(src, m, present, password,
                      DecryptCsvHandler([payload |-> [present |-> present,
                                                      text |-> Mutate(store[src].payload, m)],
                                         password |-> password]))
    /\ UNCHANGED <<pbkdf2Iterations, rngCount, encLog, store, derived, pending, files, page>>

\* a request with an envelope as sealed, or with no payload, and any password
DecryptCsvSealed ==
    \E src \in 1..Len(store), password \in BodyPasswords, present \in BOOLEAN :
        DecryptCsv(src, NoMutation, present, password)

\* a request with an envelope something happened to and the password of the
\* seal
DecryptCsvMutated ==
    /\ call.op = "none"
    /\ \E src \in 1..Len(store) :
           \E m \in Mutations(store[src].payload) :
               DecryptCsv(src, m, TRUE, Str(store[src].password))

NextHttp ==
    \/ SealAny
    \/ DecryptCsvSealed
    \/ DecryptCsvMutated
    \/ Return

SpecHttp == Init /\ [][NextHttp]_vars

\* -------------------------------------------------- encryptData, called directly

\* encryptions called directly in one behaviour
MaxEncrypts == 2

\* keys a caller holds: one of 32 bytes, one of 16
CallerKeys == {RawKey([i \in 1..keyLength |-> i]), RawKey([i \in 1..16 |-> i])}

\* data a caller encrypts: "", "c,", "\u00E9" (two bytes in UTF-8)
CallerData == {Str(<<>>), Str(<<99, 44>>), Str(<<233>>)}

\* iv arguments: none, 16 zero bytes, 12 zero bytes, no byte, and any iv an
\* earlier encryption returned
CallerIvs ==
    {Undefined, Buf([i \in 1..ivLength |-> 0]), Buf([i \in 1..12 |-> 0]), Buf(<<>>)}
    \cup {Buf(encLog[k].iv) : k \in 1..Len(encLog)}

EncryptDataCall(data, key, iv) ==
    /\ call.op = "none"
    /\ Len(encLog) < MaxEncrypts
    /\ Falsy(iv) => rngCount + 1 <= PoolSize
    /\ LET r == encryptData(data, key, iv, rngCount + 1)
       IN /\ encLog' = IF r.ok THEN Append(encLog, LogEntry(r)) ELSE encLog
          /\ call' = [op |-> "encryptData", ok |-> r.ok, error |-> r.error,
                      ivLength |-> Len(r.iv), data |-> data, result |-> r]
    /\ rngCount' = IF Falsy(iv) THEN rngCount + 1 ELSE rngCount
    /\ UNCHANGED <<pbkdf2Iterations, store, derived, pending, files, page>>

EncryptDataAny ==
    \E data \in CallerData, key \in CallerKeys, iv \in CallerIvs :
        EncryptDataCall(data, key, iv)

\* the caller hands what encryptData returned, with the key, to decryptData
DecryptResult ==
    /\ call.op = "encryptData"
    /\ call.ok
    /\ call' = [op |-> "decryptData", data |-> call.data,
                result |-> decryptData(call.result.ciphertext, call.result.key,
                                       call.result.iv, call.result.tag)]
    /\ UNCHANGED <<pbkdf2Iterations, rngCount, encLog, store, derived, pending, files, page>>

NextCipher ==
    \/ EncryptDataAny
    \/ DecryptResult
    \/ SealAny
    \/ Return

SpecCipher == Init /\ [][NextCipher]_vars

\* ---------------------------------- POST /api/billing/export-encrypted-csv

\* an array of strings as a JavaScript value
Arr(items) == [t |-> "array", s |-> items, n |-> 0]

\* the characters of the names of the fields, and of names that are none
Chars(name) ==
    CASE name = "apt_unit" -> <<97, 112, 116, 95, 117, 110, 105, 116>>
      [] name = "address_line_1" -> <<97, 100, 100, 114, 101, 115, 115, 95, 108, 105, 110, 101, 95, 49>>
      [] name = "address_line_2" -> <<97, 100, 100, 114, 101, 115, 115, 95, 108, 105, 110, 101, 95, 50>>
      [] name = "street" -> <<115, 116, 114, 101, 101, 116>>
      [] name = "city" -> <<99, 105, 116, 121>>
      [] name = "state_province" -> <<115, 116, 97, 116, 101, 95, 112, 114, 111, 118, 105, 110, 99, 101>>
      [] name = "country" -> <<99, 111, 117, 110, 116, 114, 121>>
      [] name = "postal_code" -> <<112, 111, 115, 116, 97, 108, 95, 99, 111, 100, 101>>
      [] name = "card_number" -> <<99, 97, 114, 100, 95, 110, 117, 109, 98, 101, 114>>
      [] name = "expiry_date" -> <<101, 120, 112, 105, 114, 121, 95, 100, 97, 116, 101>>
      [] name = "cvv" -> <<99, 118, 118>>
      [] name = "bogus" -> <<98, 111, 103, 117, 115>>
      [] name = "toString" -> <<116, 111, 83, 116, 114, 105, 110, 103>>
      [] name = "__proto__" -> <<95, 95, 112, 114, 111, 116, 111, 95, 95>>
      [] name = "a,b" -> <<97, 44, 98>>

\* the mock store of the server
mockBillingData ==
    [card_number |-> <<52, 53, 51, 50, 45, 49, 49, 49, 49, 45, 50, 50, 50, 50, 45, 51, 51, 51, 51>>,
     expiry_date |-> <<49, 50, 47, 50, 53>>,
     cvv |-> <<42, 42, 42>>,
     address |->
        [apt_unit |-> <<83, 117, 105, 116, 101, 32, 49, 48, 48>>,
         address_line_1 |-> <<49, 50, 51, 32, 77, 97, 105, 110, 32, 83, 116, 114, 101, 101, 116>>,
         address_line_2 |-> <<66, 117, 105, 108, 100, 105, 110, 103, 32, 65>>,
         street |-> <<77, 97, 105, 110, 32, 83, 116, 114, 101, 101, 116>>,
         city |-> <<83, 97, 110, 32, 70, 114, 97, 110, 99, 105, 115, 99, 111>>,
         state_province |-> <<67, 65>>,
         country |-> <<85, 110, 105, 116, 101, 100, 32, 83, 116, 97, 116, 101, 115>>,
         postal_code |-> <<57, 52, 49, 48, 53>>]]

\* the names fieldMap has a getter for
FieldMapNames ==
    {"apt_unit", "address_line_1", "address_line_2", "street", "city", "state_province", "country", "postal_code", "card_number", "expiry_date", "cvv"}

\* fieldMap[field](): the getter of the field applied
fieldMap(data, field) ==
    CASE field = "apt_unit" -> data.address.apt_unit
      [] field = "address_line_1" -> data.address.address_line_1
      [] field = "address_line_2" -> data.address.address_line_2
      [] field = "street" -> data.address.street
      [] field = "city" -> data.address.city
      [] field = "state_province" -> data.address.state_province
      [] field = "country" -> data.address.country
      [] field = "postal_code" -> data.address.postal_code
      [] field = "card_number" -> data.card_number
      [] field = "expiry_date" -> data.expiry_date
      [] field = "cvv" -> <<42, 42, 42>>

Comma == 44
Quote == 34
NewLine == 10

\* array.join(',')
RECURSIVE JoinComma(_)
JoinComma(cells) ==
    IF cells = <<>> THEN <<>>
    ELSE IF Len(cells) = 1 THEN cells[1]
    ELSE cells[1] \o <<Comma>> \o JoinComma(Tail(cells))

\* value.replace(/"/g, '""')
RECURSIVE DoubleQuotes(_)
DoubleQuotes(value) ==
    IF value = <<>> THEN <<>>
    ELSE (IF value[1] = Quote THEN <<Quote, Quote>> ELSE <<value[1]>>)
         \o DoubleQuotes(Tail(value))

Includes(value, c) == \E i \in 1..Len(value) : value[i] = c

\* Names fieldMap has no getter for but inherits a value for, as every
\* object does.  fieldMap.toString is a function, which called without a
\* receiver returns "[object Undefined]"; fieldMap.__proto__ is an object,
\* and calling it throws a TypeError.
InheritedCallable == {"toString"}
InheritedNotCallable == {"__proto__"}

ObjectUndefined == <<91, 111, 98, 106, 101, 99, 116, 32, 85, 110, 100, 101, 102, 105, 110, 101, 100, 93>>

\* the cell of a field in the data row
CsvValue(data, field) ==
    IF field \in InheritedCallable THEN ObjectUndefined
    ELSE IF field \notin FieldMapNames THEN <<>>
    ELSE IF Includes(fieldMap(data, field), Comma) \/ Includes(fieldMap(data, field), Quote)
    THEN <<Quote>> \o DoubleQuotes(fieldMap(data, field)) \o <<Quote>>
    ELSE fieldMap(data, field)

\* what buildCSVData throws: nothing, or the TypeError of a getter that is
\* no function
buildCSVDataError(fields) ==
    IF \E i \in 1..Len(fields) : fields[i] \in InheritedNotCallable
    THEN <<"getter is not a function">>
    ELSE <<>>

\* fields: a sequence of names.  The text returned, when nothing is thrown.
buildCSVData(data, fields) ==
    JoinComma([i \in 1..Len(fields) |-> Chars(fields[i])])
    \o <<NewLine>>
    \o JoinComma([i \in 1..Len(fields) |-> CsvValue(data, fields[i])])

MinPasswordLength == 8

ExportResponse(status, success, error, encrypted, metadata) ==
    [status |-> status, success |-> success, error |-> error,
     encrypted |-> encrypted, metadata |-> metadata]

NoMetadata == [algorithm |-> "", iterations |-> 0]

\* the check of the password
PasswordRejected(password) ==
    Falsy(password) \/ password.t # "string" \/ Len(password.s) < MinPasswordLength

\* the check of fields: !Array.isArray(fields) || fields.length === 0
FieldsRejected(fields) == fields.t # "array" \/ Len(fields.s) = 0

\* a password of fewer than 8 characters is let through
ExportCsvAnswer_ShortPasswordAccepted(body, r) ==
    IF Falsy(body.password) \/ body.password.t # "string" \/ FieldsRejected(body.fields)
    THEN [called |-> FALSE, core |-> r,
          response |-> ExportResponse(400, FALSE,
                                      <<"Password must be at least 8 characters">>,
                                      NotJsonText, NoMetadata)]
    ELSE IF buildCSVDataError(body.fields.s) # <<>>
    THEN [called |-> FALSE, core |-> r,
          response |-> ExportResponse(500, FALSE, <<"Failed to encrypt CSV data">>,
                                      NotJsonText, NoMetadata)]
    ELSE [called |-> TRUE, core |-> r,
          response |-> ExportResponse(200, TRUE, <<>>, r.payload, r.metadata)]

\* body: password and fields.  r: the result of encryptCSVData on the CSV of
\* the fields and the password, which the handler calls once both checks
\* have passed and buildCSVData has returned.
ExportCsvAnswer(body, r) ==
    IF PasswordRejected(body.password)
    THEN [called |-> FALSE, core |-> r,
          response |-> ExportResponse(400, FALSE,
                                      <<"Password must be at least 8 characters">>,
                                      NotJsonText, NoMetadata)]
    ELSE IF FieldsRejected(body.fields)
    THEN [called |-> FALSE, core |-> r,
          response |-> ExportResponse(400, FALSE,
                                      <<"At least one field must be selected for export">>,
                                      NotJsonText, NoMetadata)]
    ELSE IF buildCSVDataError(body.fields.s) # <<>>
    THEN [called |-> FALSE, core |-> r,
          response |-> ExportResponse(500, FALSE, <<"Failed to encrypt CSV data">>,
                                      NotJsonText, NoMetadata)]
    ELSE IF ~r.ok
    THEN [called |-> TRUE, core |-> r,
          response |-> ExportResponse(500, FALSE, <<"Failed to encrypt CSV data">>,
                                      NotJsonText, NoMetadata)]
    ELSE [called |-> TRUE, core |-> r,
          response |-> ExportResponse(200, TRUE, <<>>, r.payload, r.metadata)]

\* the CSV the handler builds of a body that passed the checks
ExportCsvData(body) ==
    IF body.fields.t = "array" THEN buildCSVData(mockBillingData, body.fields.s)
    ELSE <<>>

ExportCsvHandler(body, saltSeed, ivSeed) ==
    ExportCsvAnswer(body, encryptCSVData(Str(ExportCsvData(body)), body.password,
                                         saltSeed, ivSeed))

\* passwords of a request body: none, a number, "", "passwor", "password"
ExportPasswords ==
    {Undefined, Num(12345678), Str(<<>>),
     Str(<<112, 97, 115, 115, 119, 111, 114>>),
     Str(<<112, 97, 115, 115, 119, 111, 114, 100>>)}

\* fields of a request body: none, the string "cvv", and arrays
ExportFields ==
    {Undefined, Str(Chars("cvv")), Arr(<<>>), Arr(<<"cvv">>), Arr(<<"city">>),
     Arr(<<"card_number", "cvv">>), Arr(<<"bogus", "state_province">>),
     Arr(<<"__proto__">>)}

\* JSON.stringify(text) of a string: the JSON document that is a string, the
\* string being the text of an object of these members
JSONstringifyString(text) == [kind |-> "string", members |-> text.members]

\* the content of the file of the vanilla front end
downloadEncryptedCSV(payload) == JSONstringifyString(payload)

\* the content of the file of the React front end
downloadFile(content) == content

FrontEnds == {"vanilla", "react"}

\* the file the front end writes of the response; a client that is no front
\* end writes none
Downloaded(client, body, h) ==
    IF client \in FrontEnds /\ h.response.status = 200
    THEN <<[frontEnd |-> client,
            content |-> IF client = "vanilla"
                        THEN downloadEncryptedCSV(h.response.encrypted)
                        ELSE downloadFile(h.response.encrypted),
            password |-> body.password, csvData |-> ExportCsvData(body)]>>
    ELSE <<>>

\* what the request leaves when the handler has answered h
Exported(client, body, h) ==
    /\ encLog' = IF h.called /\ h.core.encrypts
                 THEN Append(encLog, LogEntry(h.core.enc)) ELSE encLog
    /\ store' = IF h.response.status = 200
                THEN Append(store, [payload |-> h.core.payload,
                                    csvData |-> ExportCsvData(body),
                                    password |-> body.password.s,
                                    iterations |-> pbkdf2Iterations])
                ELSE store
    /\ rngCount' = IF h.called THEN rngCount + 2 ELSE rngCount
    /\ files' = files \o Downloaded(client, body, h)
    /\ call' = [op |-> "POST /api/billing/export-encrypted-csv", client |-> client,
                body |-> body, called |-> h.called, response |-> h.response,
                csvData |-> IF h.called THEN ExportCsvData(body) ELSE <<>>]

\* a request to the endpoint, of a front end or of another client
ExportCsv(client, body) ==
    /\ call.op = "none"
    /\ Len(store) < MaxSeals
    /\ rngCount + 2 <= PoolSize
    /\ Exported(client, body, ExportCsvHandler(body, rngCount + 1, rngCount + 2))
    /\ UNCHANGED <<pbkdf2Iterations, derived, pending, page>>

\* a client that is no front end sends any body
ExportCsvDirect ==
    \E password \in ExportPasswords, fields \in ExportFields :
        ExportCsv("client", [password |-> password, fields |-> fields])

\* field lists a front end sends: the checked boxes
CheckedFields == {<<"city">>, <<"state_province", "postal_code">>}

\* handleExportCSV of a front end, for a password and checked boxes that pass
\* its own checks: the request, and the download of what it returned
HandleExportCSV ==
    \E frontEnd \in FrontEnds, fields \in CheckedFields :
        ExportCsv(frontEnd, [password |-> Str(<<112, 97, 115, 115, 119, 111, 114, 100>>),
                             fields |-> Arr(fields)])

\* the content of the k-th file is sent as the payload of a decrypt request
DecryptFile(k, password) ==
    /\ call.op = "none"
    /\ k \in 1..Len(files)
    /\ call' = [op |-> "POST /api/billing/decrypt-csv", file |-> k,
                password |-> password,
                response |-> DecryptCsvHandler([payload |-> [present |-> TRUE,
                                                             text |-> files[k].content],
                                                password |-> password]).response]
    /\ UNCHANGED <<pbkdf2Iterations, rngCount, encLog, store, derived, pending, files, page>>

DecryptFileAny ==
    \E k \in 1..Len(files), password \in ExportPasswords : DecryptFile(k, password)

NextExport ==
    \/ ExportCsvDirect
    \/ HandleExportCSV
    \/ DecryptFileAny
    \/ Return

SpecExport == Init /\ [][NextExport]_vars

\* -------------------------------- buildCSVData and displayDecryptedCSV

\* records buildCSVData is given: the mock store, and the mock store with a
\* city that has a comma ("Paris, TX") and one that has quotes ("O"K)
Records ==
    {mockBillingData,
     [mockBillingData EXCEPT !.address.city = <<80, 97, 114, 105, 115, 44, 32, 84, 88>>],
     [mockBillingData EXCEPT !.address.city = <<79, 34, 75, 34>>]}

\* names requested
RequestedNames == {"city", "cvv", "bogus", "toString", "__proto__", "a,b"}

\* lists of requested names: of none, of one and of two
RequestedFields ==
    {<<>>} \cup {<<a>> : a \in RequestedNames}
    \cup {<<a, b>> : a \in RequestedNames, b \in RequestedNames}

\* string.split(sep)
RECURSIVE Split(_, _)
Split(chars, sep) ==
    IF \A i \in 1..Len(chars) : chars[i] # sep THEN <<chars>>
    ELSE LET i == CHOOSE j \in 1..Len(chars) :
                      chars[j] = sep /\ \A h \in 1..(j - 1) : chars[h] # sep
         IN <<SubSeq(chars, 1, i - 1)>> \o Split(SubSeq(chars, i + 1, Len(chars)), sep)

Space == 32

\* string.trim(), for spaces
RECURSIVE Trim(_)
Trim(chars) ==
    IF chars = <<>> THEN <<>>
    ELSE IF chars[1] = Space THEN Trim(Tail(chars))
    ELSE IF chars[Len(chars)] = Space THEN Trim(SubSeq(chars, 1, Len(chars) - 1))
    ELSE chars

\* the cells of the table displayDecryptedCSV writes: those of its header
\* row and those of its value row
displayDecryptedCSV(csvData) ==
    [headers |-> [i \in 1..Len(Split(Split(csvData, NewLine)[1], Comma))
                      |-> Trim(Split(Split(csvData, NewLine)[1], Comma)[i])],
     values |-> [i \in 1..Len(Split(Split(csvData, NewLine)[2], Comma))
                     |-> Trim(Split(Split(csvData, NewLine)[2], Comma)[i])]]

\* buildCSVData(data, fields) is called, and what it returns is displayed
BuildCsv(data, fields) ==
    /\ call.op = "none"
    /\ call' = [op |-> "buildCSVData", data |-> data, fields |-> fields,
                error |-> buildCSVDataError(fields),
                csvData |-> IF buildCSVDataError(fields) = <<>>
                            THEN buildCSVData(data, fields) ELSE <<>>,
                shown |-> IF buildCSVDataError(fields) = <<>>
                          THEN displayDecryptedCSV(buildCSVData(data, fields))
                          ELSE [headers |-> <<>>, values |-> <<>>]]
    /\ UNCHANGED <<pbkdf2Iterations, rngCount, encLog, store, derived, pending, files, page>>

BuildCsvAny == \E data \in Records, fields \in RequestedFields : BuildCsv(data, fields)

NextCsv ==
    \/ BuildCsvAny
    \/ Return

SpecCsv == Init /\ [][NextCsv]_vars

\* ------------- deriveKeyFromPassword and generateSecurePassword, called directly

\* direct calls of deriveKeyFromPassword in one behaviour
MaxDerives == 2

\* the character of a hexadecimal digit
HexDigit(d) == IF d < 10 THEN 48 + d ELSE 87 + d

\* buffer.toString('hex')
RECURSIVE HexEncode(_)
HexEncode(bytes) ==
    IF bytes = <<>> THEN <<>>
    ELSE <<HexDigit(bytes[1] \div 16), HexDigit(bytes[1] % 16)>> \o HexEncode(Tail(bytes))

\* the default of the length parameter
DefaultPasswordLength == 32

\* length: Undefined when omitted, else a number
generateSecurePassword(length, seed) ==
    LET n == IF length.t = "undefined" THEN DefaultPasswordLength ELSE length.n
    IN Str(HexEncode(randomBytes(n, seed)))

\* length arguments: none, 0, 1, 16
PasswordLengths == {Undefined, Num(0), Num(1), Num(16)}

GeneratePassword(length) ==
    /\ call.op = "none"
    /\ rngCount + 1 <= PoolSize
    /\ call' = [op |-> "generateSecurePassword", length |-> length,
                result |-> generateSecurePassword(length, rngCount + 1)]
    /\ rngCount' = rngCount + 1
    /\ UNCHANGED <<pbkdf2Iterations, encLog, store, derived, pending, files, page>>

GeneratePasswordAny == \E length \in PasswordLengths : GeneratePassword(length)

\* password arguments: "s", "pw", none
DerivePasswords == {Str(<<115>>), Str(<<112, 119>>), Undefined}

\* salt arguments: none, 32 bytes, 16 bytes, no byte, and any salt an earlier
\* call returned
DeriveSalts ==
    {Undefined, Buf([i \in 1..saltLength |-> i]), Buf([i \in 1..16 |-> i]), Buf(<<>>)}
    \cup {Buf(derived[k].result.salt) : k \in 1..Len(derived)}

\* what a direct call leaves: its arguments, the configured iteration count
\* and the value the promise settled with
Derivation(password, salt, r) ==
    [password |-> password, salt |-> salt, iterations |-> pbkdf2Iterations,
     result |-> r]

DeriveKey(password, salt) ==
    /\ call.op = "none"
    /\ Len(derived) < MaxDerives
    /\ Falsy(salt) => rngCount + 1 <= PoolSize
    /\ derived' = Append(derived,
                         Derivation(password, salt,
                                    deriveKeyFromPassword(password, salt, rngCount + 1)))
    /\ call' = [op |-> "deriveKeyFromPassword"]
    /\ rngCount' = IF Falsy(salt) THEN rngCount + 1 ELSE rngCount
    /\ UNCHANGED <<pbkdf2Iterations, encLog, store, pending, files, page>>

DeriveKeyAny ==
    \E password \in DerivePasswords, salt \in DeriveSalts : DeriveKey(password, salt)

NextKeys ==
    \/ DeriveKeyAny
    \/ GeneratePasswordAny
    \/ ReconfigureAny
    \/ Return

SpecKeys == Init /\ [][NextKeys]_vars

\* ------------------------------------- calls that run while others wait

\* Each of encryptCSVData and decryptCSVData runs up to the call of
\* crypto.pbkdf2, waits for its callback while other calls run, and then runs
\* to its end.

\* calls waiting at the same time
MaxPending == 2

\* the key kept where every call finds it: the one derived last
Awaited_Latest(q, i) == q[Len(q)].d

\* what the await of deriveKeyFromPassword of the i-th waiting call resumes
\* with: the value of its own promise
Awaited(q, i) == q[i].d

Without(q, i) == SubSeq(q, 1, i - 1) \o SubSeq(q, i + 1, Len(q))

WaitingSeals == Len(SelectSeq(pending, LAMBDA c : c.kind = "seal"))

\* encryptCSVData(csvData, password) up to its await: the salt is generated
\* and crypto.pbkdf2 is called with the configured iteration count
SealStart(csvData, password) ==
    /\ Len(pending) < MaxPending
    /\ Len(store) + WaitingSeals < MaxSeals
    /\ rngCount + 2 + WaitingSeals <= PoolSize
    /\ pending' = Append(pending,
                         [kind |-> "seal", csvData |-> csvData, password |-> password,
                          d |-> deriveKeyFromPassword(Str(password), Undefined,
                                                      rngCount + 1)])
    /\ rngCount' = rngCount + 1
    /\ UNCHANGED <<pbkdf2Iterations, encLog, store, call, derived, files, page>>

\* the result of the i-th waiting call, a seal, when it resumes now
SealResumed(i) ==
    encryptCSVDataAfter(encryptWithPasswordAfter(Str(pending[i].csvData),
                                                 Awaited(pending, i), rngCount + 1))

\* encryptCSVData from its await to its end: the iv is generated, the data
\* encrypted and the envelope written
SealFinish(i) ==
    /\ call.op = "none"
    /\ i \in 1..Len(pending)
    /\ pending[i].kind = "seal"
    /\ encLog' = IF SealResumed(i).encrypts
                 THEN Append(encLog, LogEntry(SealResumed(i).enc)) ELSE encLog
    /\ store' = IF SealResumed(i).ok
                THEN Append(store, [payload |-> SealResumed(i).payload,
                                    csvData |-> pending[i].csvData,
                                    password |-> pending[i].password,
                                    iterations |-> pbkdf2Iterations])
                ELSE store
    /\ call' = [op |-> "encryptCSVData", ok |-> SealResumed(i).ok]
    /\ rngCount' = rngCount + 1
    /\ pending' = Without(pending, i)
    /\ UNCHANGED <<pbkdf2Iterations, derived, files, page>>

\* decryptCSVData(payload, password) up to its await: the payload is parsed
\* and crypto.pbkdf2 is called with its salt
OpenStart(src, password) ==
    /\ Len(pending) < MaxPending
    /\ src \in 1..Len(store)
    /\ pending' = Append(pending,
                         [kind |-> "open", src |-> src, password |-> password,
                          data |-> JSONparse(store[src].payload),
                          d |-> deriveKeyFromPassword(
                                    password, SaltOf(JSONparse(store[src].payload)), 0)])
    /\ UNCHANGED <<pbkdf2Iterations, rngCount, encLog, store, call, derived, files, page>>

\* the result of the i-th waiting call, an open, when it resumes now
OpenResumed(i) ==
    decryptCSVDataAfter(pending[i].data,
                        decryptWithPasswordAfter(
                            Base64Decode(pending[i].data.ciphertext.s),
                            Awaited(pending, i),
                            Base64Decode(pending[i].data.iv.s),
                            Base64Decode(pending[i].data.tag.s)))

\* decryptCSVData from its await to its end
OpenFinish(i) ==
    /\ call.op = "none"
    /\ i \in 1..Len(pending)
    /\ pending[i].kind = "open"
    /\ call' = [op |-> "decryptCSVData", src |-> pending[i].src,
                mutation |-> NoMutation, password |-> pending[i].password,
                iterations |-> pbkdf2Iterations, result |-> OpenResumed(i)]
    /\ pending' = Without(pending, i)
    /\ UNCHANGED <<pbkdf2Iterations, rngCount, encLog, store, derived, files, page>>

SealStartAny ==
    \E csvData \in Plaintexts, password \in SealPasswords : SealStart(csvData, password)

OpenStartAny ==
    \E src \in 1..Len(store), password \in OpenPasswords : OpenStart(src, password)

SealFinishAny == \E i \in 1..Len(pending) : SealFinish(i)

OpenFinishAny == \E i \in 1..Len(pending) : OpenFinish(i)

NextAsync ==
    \/ SealStartAny
    \/ SealFinishAny
    \/ OpenStartAny
    \/ OpenFinishAny
    \/ Return

SpecAsync == Init /\ [][NextAsync]_vars

\* ------------------------------------------------- the pages of the front ends
\*
\* A page is a record: frontEnd; loading (the loading container is shown,
\* the component's loading state); the error and the success container of
\* the vanilla page, each with its text; the message of the React component;
\* billingData ("null", "undefined" or "record"); the export password and
\* the names checked; listeners (the vanilla page has attached its event
\* listeners); downloads (a file has been handed to the browser); decrypted
\* (a decrypted table has been appended); requests, the fetches not yet
\* answered, in the order sent; timers, the timeouts set and not yet run, in
\* the order set, each with its delay.  A text is a sequence of its parts.

MaxTimers == 2
MaxInflight == 2

\* the delays of the timeouts, in milliseconds
ErrorDelay == 5000
SuccessDelay == 4000
MessageDelay == 4000

setTimeout(p, target, delay) ==
    [p EXCEPT !.timers = Append(@, [target |-> target, delay |-> delay])]

fetch(p, request) == [p EXCEPT !.requests = Append(@, request)]

clearMessages(p) == [p EXCEPT !.errorVisible = FALSE, !.successVisible = FALSE]

\* showError without clearMessages
showError_NotCleared(p, message) ==
    setTimeout([p EXCEPT !.errorText = message, !.errorVisible = TRUE],
               "errorContainer", ErrorDelay)

showError(p, message) ==
    setTimeout([clearMessages(p) EXCEPT !.errorText = message, !.errorVisible = TRUE],
               "errorContainer", ErrorDelay)

showSuccess(p, message) ==
    setTimeout([clearMessages(p) EXCEPT !.successText = message, !.successVisible = TRUE],
               "successContainer", SuccessDelay)

showLoading(p, show) == [p EXCEPT !.loading = show]

\* populateFields writes the form fields, which are no part of a page here
useMockData(p) ==
    showSuccess([p EXCEPT !.billingData = "record"],
                <<"Using demo data (backend not available)">>)

\* what the backend did with a request: the fetch was rejected, the answer
\* was not OK, it was OK, it was OK with no data property (of a load), it
\* was OK with data of one line (of a decryption)
LoadOutcomes == {"rejected", "notOk", "ok", "okNoData"}
ExportOutcomes == {"rejected", "notOk", "ok"}
DecryptOutcomes == {"rejected", "notOk", "ok", "okOneLine"}

\* error.message in the catch block of a handler
ErrorMessage(request, outcome) ==
    IF outcome = "rejected" THEN "Failed to fetch"
    ELSE IF outcome = "okOneLine" THEN "Cannot read properties of undefined (reading 'split')"
    ELSE IF request = "load" THEN "API error: 500"
    ELSE IF request = "export" THEN "Failed to encrypt CSV data"
    ELSE "Decryption failed: Invalid password or corrupted data"

\* loadBillingData of the vanilla page, to its fetch
loadBillingData(p) == fetch(clearMessages(showLoading(p, TRUE)), "load")

\* loadBillingData from the answer on, and the listeners attached after it
loadBillingDataAfter(p, outcome) ==
    [showLoading(IF outcome = "ok"
                 THEN showSuccess([p EXCEPT !.billingData = "record"],
                                  <<"Billing data loaded successfully">>)
                 ELSE IF outcome = "okNoData"
                 THEN showSuccess([p EXCEPT !.billingData = "undefined"],
                                  <<"Billing data loaded successfully">>)
                 ELSE useMockData(showError(p, <<"Failed to load billing data: ",
                                                 ErrorMessage("load", outcome)>>)),
                 FALSE)
     EXCEPT !.listeners = TRUE]

\* the checks of handleExportCSV
PasswordTooShort(p) == p.exportPassword = <<>> \/ Len(p.exportPassword) < MinPasswordLength
NothingSelected(p) == p.selectedFields = <<>>

\* handleExportCSV with the loading container shown before the checks
handleExportCSV_LoadingFirst(p) ==
    IF PasswordTooShort(p)
    THEN showError(showLoading(p, TRUE), <<"Password must be at least 8 characters">>)
    ELSE IF NothingSelected(p)
    THEN showError(showLoading(p, TRUE), <<"Please select at least one field to export">>)
    ELSE fetch(showLoading(p, TRUE), "export")

\* handleExportCSV of the vanilla page, to its fetch.  Its checks return
\* from inside the try block, so the finally block runs after them.
handleExportCSV(p) ==
    IF PasswordTooShort(p)
    THEN showLoading(showError(p, <<"Password must be at least 8 characters">>), FALSE)
    ELSE IF NothingSelected(p)
    THEN showLoading(showError(p, <<"Please select at least one field to export">>), FALSE)
    ELSE fetch(showLoading(p, TRUE), "export")

\* handleExportCSV from the answer on, with the password cleared whatever
\* the answer
handleExportCSVAfter_AlwaysCleared(p, outcome) ==
    showLoading(IF outcome = "ok"
                THEN [showSuccess([p EXCEPT !.downloads = TRUE],
                                  <<"CSV exported successfully with encryption">>)
                      EXCEPT !.exportPassword = <<>>]
                ELSE [showError(p, <<"Export failed: ", ErrorMessage("export", outcome)>>)
                      EXCEPT !.exportPassword = <<>>],
                FALSE)

\* handleExportCSV from the answer on
handleExportCSVAfter(p, outcome) ==
    showLoading(IF outcome = "ok"
                THEN [showSuccess([p EXCEPT !.downloads = TRUE],
                                  <<"CSV exported successfully with encryption">>)
                      EXCEPT !.exportPassword = <<>>]
                ELSE showError(p, <<"Export failed: ", ErrorMessage("export", outcome)>>),
                FALSE)

\* handleDecryptCSV to its fetch; filled: the password and the payload of the
\* decrypt form are both filled in
handleDecryptCSV(p, filled) ==
    IF ~filled
    THEN showLoading(showError(p, <<"Password and payload are required">>), FALSE)
    ELSE fetch(showLoading(p, TRUE), "decrypt")

\* handleDecryptCSV from the answer on
handleDecryptCSVAfter(p, outcome) ==
    showLoading(IF outcome = "ok"
                THEN showSuccess([p EXCEPT !.decrypted = TRUE],
                                 <<"CSV decrypted successfully">>)
                ELSE showError(p, <<"Decryption failed: ",
                                    ErrorMessage("decrypt", outcome)>>),
                FALSE)

\* handleCopyField: the field is empty, or the copy succeeds or fails.  The
\* feedback on the button is no part of a page here.
CopyOutcomes == {"empty", "copied", "failed"}

handleCopyField(p, outcome) ==
    IF outcome = "empty" THEN showError(p, <<"Field is empty">>)
    ELSE IF outcome = "copied" THEN showSuccess(p, <<"Copied to clipboard">>)
    ELSE showError(p, <<"Failed to copy to clipboard">>)

\* the React component

PBAComponent_showMessage(p, type, text) ==
    setTimeout([p EXCEPT !.message = [type |-> type, text |-> text]],
               "message", MessageDelay)

PBAComponent_useMockData(p) ==
    PBAComponent_showMessage([p EXCEPT !.billingData = "record"], "success",
                             <<"Using demo data (backend not available)">>)

PBAComponent_loadBillingData(p) == fetch(showLoading(p, TRUE), "load")

PBAComponent_loadBillingDataAfter(p, outcome) ==
    showLoading(IF outcome = "ok"
                THEN PBAComponent_showMessage([p EXCEPT !.billingData = "record"],
                                              "success", <<"Billing data loaded successfully">>)
                ELSE IF outcome = "okNoData"
                THEN PBAComponent_showMessage([p EXCEPT !.billingData = "undefined"],
                                              "success", <<"Billing data loaded successfully">>)
                ELSE PBAComponent_useMockData(
                         PBAComponent_showMessage(p, "error",
                                                  <<"Failed to load billing data: ",
                                                    ErrorMessage("load", outcome)>>)),
                FALSE)

\* handleExportCSV of the component, to its fetch; its checks come before
\* the try block
PBAComponent_handleExportCSV(p) ==
    IF PasswordTooShort(p)
    THEN PBAComponent_showMessage(p, "error", <<"Password must be at least 8 characters">>)
    ELSE IF NothingSelected(p)
    THEN PBAComponent_showMessage(p, "error", <<"Please select at least one field to export">>)
    ELSE fetch(showLoading(p, TRUE), "export")

\* handleExportCSV of the component from the answer on.  The try block has
\* no catch block: an error leaves it through the finally block.  After an
\* OK answer the statement after setExportPassword('') reads the undeclared
\* name error, and the ReferenceError leaves the same way.
PBAComponent_handleExportCSVAfter(p, outcome) ==
    showLoading(IF outcome = "ok"
                THEN [PBAComponent_showMessage([p EXCEPT !.downloads = TRUE], "success",
                                               <<"CSV exported successfully with encryption">>)
                      EXCEPT !.exportPassword = <<>>]
                ELSE p,
                FALSE)

PBAComponent_copyToClipboard(p, outcome) ==
    IF outcome = "copied"
    THEN PBAComponent_showMessage(p, "success", <<"Copied to clipboard">>)
    ELSE PBAComponent_showMessage(p, "error", <<"Failed to copy to clipboard">>)

\* the names the component has selected when it is mounted
InitialSelectedFields == <<"address_line_1", "city", "state_province", "postal_code">>

\* what the user types and checks
TypedPasswords == {<<>>, <<112, 119>>, <<112, 97, 115, 115, 119, 111, 114, 100>>}
FieldChoices == {<<>>, InitialSelectedFields}

\* a page with the request at i answered
Replied(p, i) == [p EXCEPT !.requests = Without(@, i)]

\* a step of a page to p
PageStep(p) ==
    /\ Len(p.timers) <= MaxTimers
    /\ Len(p.requests) <= MaxInflight
    /\ page' = p
    /\ UNCHANGED <<pbkdf2Iterations, rngCount, encLog, store, call, derived, pending, files>>

\* the page is opened: DOMContentLoaded of the vanilla page, with the boxes
\* checked that the document has checked; the mount of the component
OpenPage(frontEnd, checked) ==
    /\ page.frontEnd = "none"
    /\ PageStep(IF frontEnd = "vanilla"
                THEN loadBillingData([NoPage EXCEPT !.frontEnd = "vanilla",
                                                    !.selectedFields = checked])
                ELSE PBAComponent_loadBillingData(
                         [NoPage EXCEPT !.frontEnd = "react", !.loading = TRUE,
                                        !.selectedFields = InitialSelectedFields]))

\* the backend answers the load
LoadResumes(outcome) ==
    /\ page.frontEnd # "none"
    /\ page.requests = <<"load">>
    /\ PageStep(IF page.frontEnd = "vanilla"
                THEN loadBillingDataAfter(Replied(page, 1), outcome)
                ELSE PBAComponent_loadBillingDataAfter(Replied(page, 1), outcome))

\* the export button can be clicked: the vanilla page has its listeners, the
\* component renders the button with the billing data and enables it when
\* it is not loading
ExportEnabled ==
    \/ page.frontEnd = "vanilla" /\ page.listeners
    \/ page.frontEnd = "react" /\ page.billingData = "record" /\ ~page.loading

ClickExport ==
    /\ ExportEnabled
    /\ PageStep(IF page.frontEnd = "vanilla"
                THEN handleExportCSV(page)
                ELSE PBAComponent_handleExportCSV(page))

\* the backend answers the export request at i
ExportResumes(i, outcome) ==
    /\ page.frontEnd # "none"
    /\ i \in 1..Len(page.requests)
    /\ page.requests[i] = "export"
    /\ PageStep(IF page.frontEnd = "vanilla"
                THEN handleExportCSVAfter(Replied(page, i), outcome)
                ELSE PBAComponent_handleExportCSVAfter(Replied(page, i), outcome))

\* the decrypt button of the vanilla page
ClickDecrypt(filled) ==
    /\ page.frontEnd = "vanilla" /\ page.listeners
    /\ PageStep(handleDecryptCSV(page, filled))

DecryptResumes(i, outcome) ==
    /\ page.frontEnd = "vanilla"
    /\ i \in 1..Len(page.requests)
    /\ page.requests[i] = "decrypt"
    /\ PageStep(handleDecryptCSVAfter(Replied(page, i), outcome))

\* a copy button
ClickCopy(outcome) ==
    /\ \/ page.frontEnd = "vanilla" /\ page.listeners
       \/ page.frontEnd = "react" /\ page.billingData = "record" /\ outcome # "empty"
    /\ PageStep(IF page.frontEnd = "vanilla"
                THEN handleCopyField(page, outcome)
                ELSE PBAComponent_copyToClipboard(page, outcome))

\* the user types a password, checks and unchecks boxes
TypePassword(password) ==
    /\ \/ page.frontEnd = "vanilla"
       \/ page.frontEnd = "react" /\ page.billingData = "record"
    /\ page.exportPassword # password
    /\ PageStep([page EXCEPT !.exportPassword = password])

SelectFields(checked) ==
    /\ \/ page.frontEnd = "vanilla"
       \/ page.frontEnd = "react" /\ page.billingData = "record"
    /\ page.selectedFields # checked
    /\ PageStep([page EXCEPT !.selectedFields = checked])

\* the timeout at i can run next: a timeout runs after those set before it
\* with a delay that is not longer
Due(i) ==
    /\ i \in 1..Len(page.timers)
    /\ \A j \in 1..(i - 1) : page.timers[j].delay > page.timers[i].delay

\* what the callback of a timeout does
Hidden(p, target) ==
    IF target = "errorContainer" THEN [p EXCEPT !.errorVisible = FALSE]
    ELSE IF target = "successContainer" THEN [p EXCEPT !.successVisible = FALSE]
    ELSE [p EXCEPT !.message = NoMessage]

TimerFires(i) ==
    /\ Due(i)
    /\ PageStep(Hidden([page EXCEPT !.timers = Without(@, i)], page.timers[i].target))

OpenPageAny == \E frontEnd \in FrontEnds, checked \in FieldChoices : OpenPage(frontEnd, checked)
LoadResumesAny == \E outcome \in LoadOutcomes : LoadResumes(outcome)
ExportResumesAny ==
    \E i \in 1..MaxInflight, outcome \in ExportOutcomes : ExportResumes(i, outcome)
ClickDecryptAny == \E filled \in BOOLEAN : ClickDecrypt(filled)
DecryptResumesAny ==
    \E i \in 1..MaxInflight, outcome \in DecryptOutcomes : DecryptResumes(i, outcome)
ClickCopyAny == \E outcome \in CopyOutcomes : ClickCopy(outcome)
TypePasswordAny == \E password \in TypedPasswords : TypePassword(password)
SelectFieldsAny == \E checked \in FieldChoices : SelectFields(checked)
TimerFiresAny == \E i \in 1..MaxTimers : TimerFires(i)

NextFront ==
    \/ OpenPageAny
    \/ LoadResumesAny
    \/ ClickExport
    \/ ExportResumesAny
    \/ ClickDecryptAny
    \/ DecryptResumesAny
    \/ ClickCopyAny
    \/ TypePasswordAny
    \/ SelectFieldsAny
    \/ TimerFiresAny

SpecFront == Init /\ [][NextFront]_vars

\* ------------------------------------------------------------------ claims

\* what decryptCSVData throws when decipher.final() rejects the tag
AuthenticationError ==
    <<"CSV decryption failed: ", "Decryption failed: ",
      "Unsupported state or unable to authenticate data">>

\* a string in which every surrogate has its partner
RECURSIVE WellFormed(_)
WellFormed(s) ==
    IF s = <<>> THEN TRUE
    ELSE IF IsHigh(s[1])
         THEN Len(s) >= 2 /\ IsLow(s[2]) /\ WellFormed(SubSeq(s, 3, Len(s)))
    ELSE ~IsLow(s[1]) /\ WellFormed(Tail(s))

Opened == call.op = "decryptCSVData"

\* the envelope the completed open was given
Sealed == store[call.src]

\* the completed call opened an envelope as sealed, with the password it was
\* sealed with, under the iteration count it was sealed under
OpenedAsSealed ==
    /\ Opened
    /\ call.mutation = NoMutation
    /\ call.password = Str(Sealed.password)
    /\ call.iterations = Sealed.iterations

\* C1, as claimed: decryptCSVData(encryptCSVData(P, W).payload, W) returns
\* exactly P, for every string P and every password W.
C1_RoundTripEveryString ==
    OpenedAsSealed => call.result.ok /\ call.result.value = Str(Sealed.csvData)

\* C1, amended: the round trip returns exactly P for every P in which every
\* surrogate has its partner.
C1_RoundTripWellFormed ==
    OpenedAsSealed /\ WellFormed(Sealed.csvData)
        => call.result.ok /\ call.result.value = Str(Sealed.csvData)

C1_Witness ==
    /\ OpenedAsSealed
    /\ WellFormed(Sealed.csvData)
    /\ Sealed.csvData # <<>>
    /\ call.result.value = Str(Sealed.csvData)

\* C2, as claimed: an envelope sealed while the configured iteration count
\* was N opens to its plaintext with the right password when the configured
\* count at open time is M # N.
C2_OpensUnderStoredIterations ==
    /\ Opened
    /\ call.mutation = NoMutation
    /\ call.password = Str(Sealed.password)
    /\ call.iterations # Sealed.iterations
    => call.result.ok

\* the completed call opened, with the password of the seal, an envelope of
\* which one bit of a byte field was flipped
OpenedFlipped ==
    /\ Opened
    /\ call.mutation.kind = "flip"
    /\ call.password = Str(Sealed.password)

\* C3: a flipped bit in the ciphertext, tag, iv or salt of a sealed envelope
\* makes open with the original password fail with the authentication error,
\* and no plaintext is returned.
C3_TamperDetected ==
    OpenedFlipped =>
        /\ ~call.result.ok
        /\ call.result.error = AuthenticationError
        /\ call.result.value = Undefined

C3_Witness ==
    /\ OpenedFlipped
    /\ call.mutation.field = "ciphertext"
    /\ call.iterations = Sealed.iterations
    /\ call.result.error = AuthenticationError

\* the completed call opened an envelope as sealed with another password
OpenedWithOtherPassword ==
    /\ Opened
    /\ call.mutation = NoMutation
    /\ call.password.t = "string"
    /\ call.password.s # Sealed.password

\* C4, as claimed: opening seal(P, W1) with any W2 # W1 fails with the
\* authentication error and returns no plaintext.
C4_WrongPasswordFails ==
    OpenedWithOtherPassword =>
        /\ ~call.result.ok
        /\ call.result.error = AuthenticationError
        /\ call.result.value = Undefined

\* C4, amended: it fails so whenever the UTF-8 encodings of W1 and W2 differ.
C4_WrongPasswordBytesFails ==
    OpenedWithOtherPassword /\ Utf8Encode(call.password.s) # Utf8Encode(Sealed.password)
        => /\ ~call.result.ok
           /\ call.result.error = AuthenticationError
           /\ call.result.value = Undefined

C4_Witness ==
    /\ OpenedWithOtherPassword
    /\ Utf8Encode(call.password.s) # Utf8Encode(Sealed.password)
    /\ call.iterations = Sealed.iterations
    /\ call.result.error = AuthenticationError

\* C5, as claimed: open on a structurally invalid envelope (no JSON, a byte
\* field missing, a byte field that is not base64) ends in an error that is
\* not the authentication error of a failed tag check.
C5_FormatErrorDistinct ==
    Opened /\ call.mutation.kind \in {"notjson", "drop", "garbage", "noise"}
        => ~call.result.ok /\ call.result.error # AuthenticationError

\* C6, as claimed: an envelope rejected for its format (a field missing,
\* malformed or of the wrong length) is rejected before any cryptographic
\* operation, key derivation included.
C6_FailFast ==
    /\ Opened
    /\ call.mutation.kind \in {"notjson", "null", "drop", "number", "garbage", "truncate"}
    /\ ~call.result.ok
    /\ call.result.error # AuthenticationError
    => call.result.ops = <<>>

\* C7: when the tag check fails the caller receives no plaintext; plaintext is
\* returned only by calls whose tag check succeeded.
C7_VerifyThenRelease ==
    Opened =>
        /\ call.result.ok => call.result.tagOk
        /\ ~call.result.tagOk => call.result.value = Undefined

\* the tag check ran and failed, and nothing was returned
C7_Witness ==
    /\ Opened
    /\ call.result.ops = <<"pbkdf2", "update", "final">>
    /\ ~call.result.tagOk
    /\ call.result.value = Undefined

\* the handler of the decrypt endpoint has answered
Answered == call.op = "POST /api/billing/decrypt-csv"

\* C8: every failure of the tag check gives the caller of open the same
\* error, whatever its cause, and the endpoint answers every failed
\* decryption with status 400 and the one message.
C8_FailureCauseHidden ==
    Answered /\ call.called =>
        /\ call.result.ops = <<"pbkdf2", "update", "final">> /\ ~call.result.tagOk
               => call.result.error = AuthenticationError
        /\ ~call.result.ok
               => /\ call.response.status = 400
                  /\ call.response.error = <<DecryptFailedMessage>>
                  /\ call.response.data = Undefined

\* a flipped bit answered as a failed decryption
C8_Witness ==
    /\ Answered
    /\ call.mutation.kind = "flip"
    /\ ~call.result.tagOk
    /\ call.response.status = 400
    /\ call.response.error = <<DecryptFailedMessage>>

\* C9, as claimed: no two encryptions are performed under the same
\* (key, nonce) pair, whether the iv was generated or supplied.
C9_NoNonceReuse ==
    \A i, j \in 1..Len(encLog) :
        i < j => ~(encLog[i].key = encLog[j].key /\ encLog[i].iv = encLog[j].iv)

\* C9, amended: of two encryptions under the same (key, nonce) pair, the
\* later was given its iv by the caller.
C9_NoGeneratedNonceReuse ==
    \A i, j \in 1..Len(encLog) :
        i < j /\ encLog[i].key = encLog[j].key /\ encLog[i].iv = encLog[j].iv
            => ~encLog[j].ivGenerated

\* two encryptions under one key, the iv of the second generated
C9_Witness ==
    \E i, j \in 1..Len(encLog) :
        /\ i < j
        /\ encLog[i].key = encLog[j].key
        /\ encLog[j].ivGenerated
        /\ encLog[i].iv # encLog[j].iv

\* two envelopes sealed from the same plaintext under the same password
SamePair(i, j) ==
    /\ i < j
    /\ store[i].csvData = store[j].csvData
    /\ store[i].password = store[j].password

SaltSupplied(k) == derived[k].salt.t = "buffer"

\* C11, as claimed: deriveKeyFromPassword signals an error, and derives no
\* key, when the salt it is given is not of 32 bytes (an empty salt included).
C11_WrongSaltRejected ==
    \A k \in 1..Len(derived) :
        SaltSupplied(k) /\ Len(derived[k].salt.s) # saltLength
            => ~derived[k].result.ok

\* C12: two calls of deriveKeyFromPassword with the same password and the
\* same supplied salt, under the same iteration count, return the same key,
\* and the salt each returns is the salt supplied.
C12_DeriveDeterministic ==
    \A i, j \in 1..Len(derived) :
        /\ SaltSupplied(i)
        /\ derived[i].result.ok
        /\ derived[j].password = derived[i].password
        /\ derived[j].salt = derived[i].salt
        /\ derived[j].iterations = derived[i].iterations
        => /\ derived[j].result.ok
           /\ derived[j].result.key = derived[i].result.key
           /\ derived[i].result.salt = derived[i].salt.s

\* two calls with the same password and the salt the first one generated
C12_Witness ==
    /\ Len(derived) = 2
    /\ derived[1].salt = Undefined
    /\ derived[2].salt = Buf(derived[1].result.salt)
    /\ derived[2].password = derived[1].password
    /\ derived[2].iterations = derived[1].iterations
    /\ derived[1].result.ok
    /\ derived[2].result.key = derived[1].result.key

\* C19, as claimed: the password generateSecurePassword(length) returns has
\* length characters, 32 when length is omitted.
C19_PasswordLengthAsRequested ==
    call.op = "generateSecurePassword"
        => Len(call.result.s) = (IF call.length.t = "undefined"
                                 THEN DefaultPasswordLength ELSE call.length.n)

\* the result of opening again what the completed open was given
Reopened ==
    decryptCSVData(Mutate(store[call.src].payload, call.mutation), call.password)

Field(k, name) == Member(store[k].payload.members, name)

\* the names of the fields of the k-th envelope sealed, in order
FieldNames(k) ==
    [i \in 1..Len(store[k].payload.members) |-> store[k].payload.members[i].name]

\* a seal has just produced the envelope Len(store)
JustSealed == call.op = "encryptCSVData" /\ call.ok

\* C15: every envelope encryptCSVData produces has the six fields salt, iv,
\* tag, ciphertext, algorithm and iterations; salt decodes to 32 bytes, iv to
\* 16 and tag to 16; algorithm is "aes-256-gcm"; iterations is the count the
\* key of the envelope was derived with.
C15_SelfDescribing ==
    JustSealed =>
        LET k == Len(store)
        IN /\ store[k].payload.kind = "object"
           /\ FieldNames(k) = <<"salt", "iv", "tag", "ciphertext", "algorithm", "iterations">>
           /\ Len(Base64Decode(Field(k, "salt").s)) = saltLength
           /\ Len(Base64Decode(Field(k, "iv").s)) = ivLength
           /\ Len(Base64Decode(Field(k, "tag").s)) = tagLength
           /\ Field(k, "ciphertext").t = "string"
           /\ Field(k, "algorithm") = Str(AlgorithmChars)
           /\ Field(k, "iterations") = Num(encLog[k].key.iterations)

\* an envelope sealed under the raised iteration count, after one sealed
\* under the default
C15_Witness ==
    /\ JustSealed
    /\ Len(store) = 2
    /\ encLog[1].key.iterations = DefaultIterations
    /\ encLog[2].key.iterations = RaisedIterations
    /\ Field(2, "iterations") = Num(RaisedIterations)

\* the envelope the completed seal produced
LastSealed == store[Len(store)]

\* C14: under every interleaving of seal and open calls, each seal yields an
\* envelope that opens to its own plaintext under its own password, and each
\* open ends with the result it has when run alone: for a valid envelope and
\* the right password, that envelope's plaintext.
C14_NoInterference ==
    /\ JustSealed /\ WellFormed(LastSealed.csvData)
        => decryptCSVData(LastSealed.payload, Str(LastSealed.password)).value
               = Str(LastSealed.csvData)
    /\ Opened => call.result = Reopened
    /\ OpenedAsSealed /\ WellFormed(Sealed.csvData)
        => call.result.value = Str(Sealed.csvData)

\* a seal has ended while a seal with another password still waits
C14_Witness ==
    /\ JustSealed
    /\ Len(pending) = 1
    /\ pending[1].kind = "seal"
    /\ pending[1].password # LastSealed.password
    /\ LastSealed.csvData # <<>>
    /\ decryptCSVData(LastSealed.payload, Str(LastSealed.password)).value
           = Str(LastSealed.csvData)

\* the cells of a line of CSV text, and the lines of a text
RECURSIVE SplitOn(_, _)
SplitOn(chars, sep) ==
    IF ~Includes(chars, sep) THEN <<chars>>
    ELSE LET i == CHOOSE j \in 1..Len(chars) :
                      chars[j] = sep /\ \A h \in 1..(j - 1) : chars[h] # sep
         IN <<SubSeq(chars, 1, i - 1)>> \o SplitOn(SubSeq(chars, i + 1, Len(chars)), sep)

Cells(line) == {SplitOn(line, Comma)[i] : i \in 1..Len(SplitOn(line, Comma))}

\* the export endpoint has answered, and with an envelope
ExportAnswered == call.op = "POST /api/billing/export-encrypted-csv"
ExportDone == ExportAnswered /\ call.response.status = 200

\* C16, as claimed: whatever fields are requested, "cvv" among them or not,
\* the CSV the export endpoint builds and encrypts has no cvv column and no
\* cvv value.
C16_CvvNotExported ==
    ExportDone =>
        /\ Chars("cvv") \notin Cells(SplitOn(call.csvData, NewLine)[1])
        /\ mockBillingData.cvv \notin Cells(SplitOn(call.csvData, NewLine)[2])

\* the request is one the endpoint has to refuse: the password is missing, is
\* no string or has fewer than 8 characters, or fields is no array or is empty
ExportInvalid(body) ==
    \/ body.password.t # "string"
    \/ Len(body.password.s) < 8
    \/ body.fields.t # "array"
    \/ body.fields.s = <<>>

\* C17: the export endpoint answers 400 and derives no key and encrypts
\* nothing when the password is missing, is no string or is shorter than 8
\* characters, or when fields is not a non-empty array; it encrypts only for
\* requests that pass both checks.
C17_ExportValidated ==
    [][call'.op = "POST /api/billing/export-encrypted-csv" =>
           /\ ExportInvalid(call'.body) =>
                  /\ call'.response.status = 400
                  /\ ~call'.called
                  /\ encLog' = encLog /\ rngCount' = rngCount /\ store' = store
           /\ (call'.called \/ encLog' # encLog \/ rngCount' # rngCount)
                  => ~ExportInvalid(call'.body)]_vars

\* a request with a password of 7 characters and a field was answered 400
C17_Witness ==
    /\ ExportAnswered
    /\ call.body.password.t = "string"
    /\ Len(call.body.password.s) = 7
    /\ call.body.fields = Arr(<<"city">>)
    /\ call.response.status = 400
    /\ ~call.called

\* a decrypt request with the content of a downloaded file has been answered
FileDecrypted == call.op = "POST /api/billing/decrypt-csv"

\* C18, as claimed: the content of the file a front end wrote after an
\* export, sent as the payload of a decrypt request with the password of the
\* export, decrypts to the exported CSV.
C18_FileDecrypts ==
    FileDecrypted /\ call.password = files[call.file].password
        => /\ call.response.status = 200
           /\ call.response.data = Str(files[call.file].csvData)

\* C20, as claimed: for every 32-byte key, data and iv argument, the nonce
\* encryptData returns has 16 bytes, and decryptData on what it returned
\* gives back the data.
C20_EncryptDecryptRoundTrip ==
    /\ call.op = "encryptData" /\ call.ok => call.ivLength = ivLength
    /\ call.op = "decryptData" => call.result.ok /\ call.result.value = call.data

\* encryptData has returned a result
Encrypted == call.op = "encryptData" /\ call.ok

\* C21: the ciphertext encryptData returns has as many bytes as the
\* plaintext (the UTF-8 bytes of the data), and the tag is a field of its own
\* of 16 bytes.
C21_CiphertextLength ==
    Encrypted =>
        /\ Len(call.result.ciphertext) = Len(Utf8Encode(call.data.s))
        /\ Len(call.result.tag) = tagLength

\* a string of one character and two bytes was encrypted to two bytes
C21_Witness ==
    /\ Encrypted
    /\ Len(call.data.s) = 1
    /\ Len(call.result.ciphertext) = 2
    /\ Len(call.result.tag) = tagLength

\* buildCSVData has been called
Built == call.op = "buildCSVData"

\* the value of the record for a name, nothing for a name that is no
\* supported field
RecordValue(data, name) == IF name \in FieldMapNames THEN fieldMap(data, name) ELSE <<>>

\* C22, as claimed: buildCSVData returns two lines, the requested names in
\* request order and the record's value for each of them in the same order;
\* a name that is no supported field gives an empty value and no error.
C22_HeaderAndValues ==
    Built =>
        /\ call.error = <<>>
        /\ Len(Split(call.csvData, NewLine)) = 2
        /\ Split(call.csvData, NewLine)[1]
               = JoinComma([i \in 1..Len(call.fields) |-> Chars(call.fields[i])])
        /\ (\A i \in 1..Len(call.fields) :
                ~Includes(RecordValue(call.data, call.fields[i]), Comma)
                /\ ~Includes(RecordValue(call.data, call.fields[i]), Quote))
               => Split(call.csvData, NewLine)[2]
                      = JoinComma([i \in 1..Len(call.fields)
                                       |-> RecordValue(call.data, call.fields[i])])

\* C30, as claimed: the header line and the value line of the CSV
\* buildCSVData returns have the same number of columns, and
\* displayDecryptedCSV shows as many value cells as header cells.
C30_SameColumns ==
    Built /\ call.error = <<>> =>
        /\ Len(Split(Split(call.csvData, NewLine)[1], Comma))
               = Len(Split(Split(call.csvData, NewLine)[2], Comma))
        /\ Len(call.shown.headers) = Len(call.shown.values)

\* the page shows an error that begins with the text
ShowsError(p, text) ==
    IF p.frontEnd = "vanilla"
    THEN p.errorVisible /\ p.errorText # <<>> /\ p.errorText[1] = text
    ELSE p.message.type = "error" /\ p.message.text # <<>> /\ p.message.text[1] = text

\* the page shows an error
ShowsAnyError(p) ==
    IF p.frontEnd = "vanilla" THEN p.errorVisible /\ p.errorText # <<>>
    ELSE p.message.type = "error"

\* C23, as claimed: when an export request fails, by a network error or by an
\* answer that is not OK, the front end shows an 'Export failed' error and
\* ends with the loading indicator off.
C23_ExportFailureShown ==
    [][\A i \in 1..MaxInflight, outcome \in ExportOutcomes \ {"ok"} :
           ExportResumes(i, outcome)
               => ShowsError(page', "Export failed: ") /\ ~page'.loading]_vars

\* the export handler would reject what the page holds
ExportInputRejected == PasswordTooShort(page) \/ NothingSelected(page)

C25_BillingRecordAfterLoad ==
    [][\A outcome \in LoadOutcomes :
           LoadResumes(outcome) => page'.billingData = "record" /\ ~page'.loading]_vars

\* C26, as claimed: in the vanilla front end the loading indicator is
\* visible whenever a request is in flight.
C26_LoadingWhileInFlight ==
    page.frontEnd = "vanilla" /\ page.requests # <<>> => page.loading

\* the message that the timeout at i was set for is no longer the one shown
\* where it shows: a later call has set a timeout for the same place, whose
\* message is visible
ShownLater(i) ==
    /\ \E j \in (i + 1)..Len(page.timers) : page.timers[j].target = page.timers[i].target
    /\ Hidden(page, page.timers[i].target) # page

\* C27, as claimed: the timeout set by an earlier showError, showSuccess or
\* showMessage never hides a message that was shown later.
C27_TimeoutHidesOwnMessage ==
    [][\A i \in 1..MaxTimers : TimerFires(i) => ~ShownLater(i)]_vars

\* C28: in the vanilla front end the error container and the success
\* container are never visible at the same time.
C28_OneContainerVisible ==
    page.frontEnd = "vanilla" => ~(page.errorVisible /\ page.successVisible)

\* a success message has replaced an error whose timeout has not run yet
C28_Witness ==
    /\ page.frontEnd = "vanilla"
    /\ page.successVisible /\ ~page.errorVisible
    /\ page.errorText # <<>>
    /\ \E i \in 1..Len(page.timers) : page.timers[i].target = "errorContainer"

\* C29: the export password is cleared by every successful export, and left
\* as it is by an export that the checks reject or that fails.
C29_PasswordClearedOnSuccess ==
    [][/\ \A i \in 1..MaxInflight :
              ExportResumes(i, "ok") => page'.exportPassword = <<>>
       /\ \A i \in 1..MaxInflight, outcome \in ExportOutcomes \ {"ok"} :
              ExportResumes(i, outcome) => page'.exportPassword = page.exportPassword
       /\ ClickExport /\ ExportInputRejected
              => page'.exportPassword = page.exportPassword]_vars

\* an export has succeeded and left the password empty
C29_Witness ==
    /\ page.downloads /\ page.exportPassword = <<>>
    /\ page.requests = <<>>
    /\ IF page.frontEnd = "vanilla"
       THEN page.successVisible
            /\ page.successText = <<"CSV exported successfully with encryption">>
       ELSE page.message = [type |-> "success",
                            text |-> <<"CSV exported successfully with encryption">>]

====
